---- MODULE Spec2Model ----
(***************************************************************************)
(* Resource-management core of the kernel: the stack frame allocator       *)
(* (os4-ref/src/mm/frame_allocator.rs) and the application loader          *)
(* (os3multiprog/src/loader.rs).                                           *)
(*                                                                         *)
(* Option<T> is modelled as a set with at most one element: {} is None,    *)
(* {x} is Some(x).  A kernel panic sets `panicked`; nothing runs after it. *)
(***************************************************************************)
EXTENDS Integers, Sequences, FiniteSets

\* ------------------------------------------------------------------ bounds
\* Frame numbers range over 0..MaxPPN; init(l, r) is called with l <= r <= MaxPPN.
MaxPPN == 3

\* Length of the byte array of one frame, ppn.get_bytes_array() (scaled down).
PageSize == 2

\* Largest number of embedded applications (_num_app).
MaxNumApp == 3
\* run_next_app is called at most this many times.
MaxRuns == 3
\* The timer is read at most up to this value.
MaxTime == 3
\* A task enters Running at most this many times.
MaxEntries == 3
\* Each syscall number is counted at most up to this value.
MaxSyscalls == 2

\* ------------------------------------------- configuration (loader.rs:5-9)
\* The addresses and sizes are scaled down so that memory can be enumerated;
\* only their order and their arithmetic matter to the loader.
USER_STACK_SIZE == 2
KERNEL_STACK_SIZE == 5
APP_BASE_ADDRESS == 200
APP_SIZE_LIMIT == 3
MAX_APP_NUM == 2
\* length of TaskControlBlock.syscall_accounting (task.rs:13, scaled down)
MAX_SYSCALL_NUM == 2
\* size_of::<TrapContext>(), in stack cells
TrapContextSize == 2
\* where the linker put the statics KERNEL_STACK and USER_STACK and the images
KERNEL_STACK_ptr == 8
USER_STACK_ptr == 4
DataStart == 100

PPNs == 0..(MaxPPN - 1)
\* Arguments a dealloc call may be given: one past the largest `end` included.
AnyPPN == 0..MaxPPN
Byte == 0..1
PageIdx == 1..PageSize

VARIABLES
    \* StackFrameAllocator
    current,      \* next never-yet-used frame number
    end,          \* exclusive upper bound of the managed range
    recycled,     \* Vec<usize>: released frame numbers, last pushed at the end
    \* the rest of the machine the allocator acts on
    booted,       \* FALSE after new(), TRUE once init_frame_allocator has run
    trackers,     \* live FrameTrackers: frame number -> how many trackers hold it
    frames,       \* physical memory: frame number -> its bytes
    panicked,     \* a panic!() was reached
    ret,          \* what the last alloc returned: {} is None, {ppn} is Some(ppn)
    last,         \* the last operation and its argument
    \* history of the run
    low,          \* the l that init was given
    released,     \* the frames released and not handed out again before the
                  \* last drop, in the order of their release
    reused,       \* the frames alloc has returned since the last drop, in order
    cur0,         \* `current` at the last drop
    \* the build/link boundary
    num_app,      \* the word at _num_app
    app_start,    \* the num_app + 1 words after it: where each image starts
    \* application memory and stacks
    mem,          \* the bytes at APP_BASE_ADDRESS and above
    kstack,       \* kernel data memory, where KERNEL_STACK and USER_STACK lie
    \* load_app
    load_pc,      \* "boot", "loop" (inside `for i in 0..num_app`), "done"
    load_i,       \* the loop variable i
    unflushed,    \* bytes were written to application memory since the last fence.i
    \* AppManager and the mode switch
    current_app,  \* AppManager.current_app
    cx_call,      \* the last init_app_cx call: {} or {[app_id, addr]}
    restored,     \* the trap contexts __restore was given, in order
    manager_ready,\* the lazy_static APP_MANAGER has been initialised
    \* UPSafeCell: the exclusive-access guards alive on each cell
    frame_guard,  \* on FRAME_ALLOCATOR
    app_guard,    \* on APP_MANAGER
    reentered,    \* exclusive_access was called on a cell whose guard was alive
    \* history of the loader
    cx_hist,      \* every init_app_cx call so far: [app_id, addr, sp]
    touched,      \* the last turn of the load loop: {} or {[i, addrs written]}
    \* one TaskControlBlock (task_cx left out) and the timer
    task_status,
    first_start_time,    \* {} while unset, {t} once set
    syscall_accounting,
    now,          \* what get_time returns
    run_times     \* history: the time of every entry into Running, in order

allocVars == <<current, end, recycled>>
histVars == <<low, released, reused, cur0>>
frameVars == <<current, end, recycled, booted, trackers, frames, panicked, ret,
               last, low, released, reused, cur0>>

loaderVars == <<num_app, app_start, mem, kstack, load_pc, load_i, unflushed,
                current_app, cx_call, restored, manager_ready, cx_hist, touched>>

guardVars == <<frame_guard, app_guard, reentered>>

taskVars == <<task_status, first_start_time, syscall_accounting, now, run_times>>

vars == <<frameVars, loaderVars, guardVars, taskVars>>

\* ----------------------------------------------------------------- helpers
Last(s) == s[Len(s)]
Front(s) == SubSeq(s, 1, Len(s) - 1)
Range(s) == {s[i] : i \in DOMAIN s}
\* how many entries of s equal x
Count(s, x) == Cardinality({i \in DOMAIN s : s[i] = x})
ZeroPage == [i \in PageIdx |-> 0]
Op(name, arg) == [op |-> name, arg |-> arg]
\* f[0] + ... + f[n - 1]
RECURSIVE Sum(_, _)
Sum(f, n) == IF n = 0 THEN 0 ELSE Sum(f, n - 1) + f[n - 1]

\* ------------------------------------------------- StackFrameAllocator
\* FrameAllocator::new
new ==
    /\ current = 0
    /\ end = 0
    /\ recycled = <<>>

\* StackFrameAllocator::init
init(l, r) ==
    /\ current' = l
    /\ end' = r
    /\ UNCHANGED recycled

\* alloc that hands out the top of `recycled` and leaves it there
alloc_keep ==
    IF recycled # <<>>
    THEN /\ ret' = {Last(recycled)}
         /\ UNCHANGED <<current, end, recycled>>
    ELSE IF current = end
    THEN /\ ret' = {}
         /\ UNCHANGED <<current, end, recycled>>
    ELSE /\ current' = current + 1
         /\ ret' = {current' - 1}
         /\ UNCHANGED <<end, recycled>>

\* alloc that tests for exhaustion before it looks at `recycled`
alloc_exhaust_first ==
    IF current = end
    THEN /\ ret' = {}
         /\ UNCHANGED <<current, end, recycled>>
    ELSE IF recycled # <<>>
    THEN /\ ret' = {Last(recycled)}
         /\ recycled' = Front(recycled)
         /\ UNCHANGED <<current, end>>
    ELSE /\ current' = current + 1
         /\ ret' = {current' - 1}
         /\ UNCHANGED <<end, recycled>>

\* alloc that takes the oldest entry of `recycled` (a queue, not a stack)
alloc_fifo ==
    IF recycled # <<>>
    THEN /\ ret' = {Head(recycled)}
         /\ recycled' = Tail(recycled)
         /\ UNCHANGED <<current, end>>
    ELSE IF current = end
    THEN /\ ret' = {}
         /\ UNCHANGED <<current, end, recycled>>
    ELSE /\ current' = current + 1
         /\ ret' = {current' - 1}
         /\ UNCHANGED <<end, recycled>>

\* StackFrameAllocator::alloc
alloc ==
    IF recycled # <<>>
    THEN /\ ret' = {Last(recycled)}
         /\ recycled' = Front(recycled)
         /\ UNCHANGED <<current, end>>
    ELSE IF current = end
    THEN /\ ret' = {}
         /\ UNCHANGED <<current, end, recycled>>
    ELSE /\ current' = current + 1
         /\ ret' = {current' - 1}
         /\ UNCHANGED <<end, recycled>>

\* validity check without the double-free test
dealloc_invalid_no_double(ppn) ==
    ppn >= current

\* validity check with the bound off by one, upwards
dealloc_invalid_gt(ppn) ==
    ppn > current \/ \E i \in DOMAIN recycled : recycled[i] = ppn

\* validity check with the bound off by one, downwards
dealloc_invalid_early(ppn) ==
    ppn + 1 >= current \/ \E i \in DOMAIN recycled : recycled[i] = ppn

\* The validity check of dealloc: TRUE when it panics.
dealloc_invalid(ppn) ==
    ppn >= current \/ \E i \in DOMAIN recycled : recycled[i] = ppn

\* dealloc that checks and then forgets to push
dealloc_forget(ppn) ==
    IF dealloc_invalid(ppn)
    THEN /\ panicked' = TRUE
         /\ UNCHANGED <<current, end, recycled>>
    ELSE UNCHANGED <<current, end, recycled, panicked>>

\* StackFrameAllocator::dealloc
dealloc(ppn) ==
    IF dealloc_invalid(ppn)
    THEN /\ panicked' = TRUE
         /\ UNCHANGED <<current, end, recycled>>
    ELSE /\ recycled' = Append(recycled, ppn)
         /\ UNCHANGED <<current, end, panicked>>

\* page cleaning that stops after the first byte
FrameTracker_new_first(ppn) ==
    frames' = [frames EXCEPT ![ppn][1] = 0]

\* FrameTracker::new: page cleaning, every byte of the frame set to 0
FrameTracker_new(ppn) ==
    frames' = [frames EXCEPT ![ppn] = [i \in PageIdx |-> 0]]

\* ------------------------------------------------------------- UPSafeCell
\* exclusive_access(): the guards alive on the cell once it has returned
exclusive_access(g) == g + 1

\* exclusive_access() on a cell whose guard is alive: "already borrowed"
already_borrowed(g) == g > 0

\* a guard is dropped or goes out of scope
drop_guard(g) == g - 1

\* the panic of exclusive_access on a borrowed cell
BorrowPanic ==
    /\ reentered' = TRUE
    /\ panicked' = TRUE
    /\ UNCHANGED <<allocVars, booted, trackers, frames, ret, last, histVars>>
    /\ UNCHANGED <<taskVars, loaderVars, frame_guard, app_guard>>

\* ------------------------------------------------------------- operations
\* init_frame_allocator: init(ceil(ekernel), floor(MEMORY_END)), once at boot
init_frame_allocator ==
    /\ ~panicked
    /\ ~booted
    /\ IF already_borrowed(frame_guard) THEN BorrowPanic ELSE
       /\ \E l \in 0..MaxPPN : \E r \in l..MaxPPN :
             /\ init(l, r)
             /\ low' = l
             /\ cur0' = l
             /\ last' = Op("init", {l, r})
       /\ booted' = TRUE
       /\ frame_guard' = drop_guard(exclusive_access(frame_guard))
       /\ UNCHANGED <<trackers, frames, panicked, ret, released, reused>>
       /\ UNCHANGED <<taskVars, loaderVars, app_guard, reentered>>

\* frame_alloc: alloc().map(FrameTracker::new); the guard lives to the end of
\* the function
frame_alloc ==
    /\ ~panicked
    /\ booted
    /\ IF already_borrowed(frame_guard) THEN BorrowPanic ELSE
       /\ alloc
       /\ IF ret' = {}
          THEN /\ last' = Op("alloc", {})
               /\ UNCHANGED <<trackers, frames, reused>>
          ELSE \E ppn \in ret' :
                  /\ last' = Op("alloc", {frames[ppn]})
                  /\ FrameTracker_new(ppn)
                  /\ trackers' = [trackers EXCEPT ![ppn] = @ + 1]
                  /\ reused' = Append(reused, ppn)
       /\ frame_guard' = drop_guard(exclusive_access(frame_guard))
       /\ UNCHANGED <<booted, panicked, low, released, cur0>>
       /\ UNCHANGED <<taskVars, loaderVars, app_guard, reentered>>

\* Drop for FrameTracker: frame_dealloc(self.ppn).  Scope exit, drop(),
\* Vec::clear and dropping a Vec all run this once per tracker.  A panic in
\* dealloc leaves the guard alive.
drop_tracker ==
    /\ ~panicked
    /\ booted
    /\ IF already_borrowed(frame_guard) THEN BorrowPanic ELSE
       /\ \E ppn \in PPNs :
             /\ trackers[ppn] > 0
             /\ trackers' = [trackers EXCEPT ![ppn] = @ - 1]
             /\ dealloc(ppn)
             /\ released' = Append(SelectSeq(released, LAMBDA q : q \notin Range(reused)), ppn)
             /\ last' = Op("drop", {ppn})
       /\ reused' = <<>>
       /\ cur0' = current
       /\ frame_guard' = IF panicked' THEN exclusive_access(frame_guard)
                         ELSE drop_guard(exclusive_access(frame_guard))
       /\ UNCHANGED <<booted, frames, ret, low>>
       /\ UNCHANGED <<taskVars, loaderVars, app_guard, reentered>>

\* The owner of a live tracker writes into its frame.
write_frame ==
    /\ ~panicked
    /\ booted
    /\ \E ppn \in PPNs : \E i \in PageIdx : \E b \in Byte :
          /\ trackers[ppn] > 0
          /\ frames[ppn][i] # b
          /\ frames' = [frames EXCEPT ![ppn][i] = b]
          /\ last' = Op("write", {ppn})
    /\ UNCHANGED <<allocVars, booted, trackers, panicked, ret, histVars>>
    /\ UNCHANGED <<taskVars, loaderVars, guardVars>>

\* StackFrameAllocator::alloc called on the allocator itself
alloc_call ==
    /\ ~panicked
    /\ booted
    /\ alloc
    /\ last' = Op("alloc", {})
    /\ UNCHANGED <<booted, trackers, frames, panicked, histVars>>
    /\ UNCHANGED <<taskVars, loaderVars, guardVars>>

\* StackFrameAllocator::dealloc called with any frame number
dealloc_call ==
    /\ ~panicked
    /\ booted
    /\ \E ppn \in AnyPPN :
          /\ dealloc(ppn)
          /\ last' = Op("dealloc", {ppn})
    /\ UNCHANGED <<booted, trackers, frames, ret, histVars>>
    /\ UNCHANGED <<taskVars, loaderVars, guardVars>>

\* ------------------------------------------------------------- App Loader
\* The memory the loader writes: the application slots and one slot beyond.
AppMem == APP_BASE_ADDRESS..(APP_BASE_ADDRESS + (MaxNumApp + 1) * APP_SIZE_LIMIT - 1)
\* Kernel data memory: holds USER_STACK and KERNEL_STACK and the words after.
KMem == 0..(KERNEL_STACK_ptr + KERNEL_STACK_SIZE + TrapContextSize)
\* An image may be one byte longer than its slot.
MaxImageLen == APP_SIZE_LIMIT + 1

\* The byte of the kernel image at address a: the embedded images are read
\* only, every byte of them non-zero and different from the others.
image(a) == a - DataStart + 1

\* get_base_i
get_base_i(app_id) ==
    APP_BASE_ADDRESS + app_id * APP_SIZE_LIMIT

\* The source declares one KernelStack and one UserStack (loader.rs:21-26):
\* KERNEL_STACK[app_id] and USER_STACK[app_id] have no other object to select.
KERNEL_STACK(app_id) == KERNEL_STACK_ptr
USER_STACK(app_id) == USER_STACK_ptr

\* KernelStack::get_sp
KernelStack_get_sp(self) == self + KERNEL_STACK_SIZE

\* UserStack::get_sp
UserStack_get_sp(self) == self + USER_STACK_SIZE

\* TrapContext::app_init_context(entry, sp): sepc = entry, x[2] = sp
app_init_context(entry, sp) == [sepc |-> entry, x2 |-> sp]

\* A TrapContext in memory: x[..] first, sepc last.
write_context(m, ptr, cx) == [m EXCEPT ![ptr] = cx.x2, ![ptr + 1] = cx.sepc]
read_context(m, ptr) == [sepc |-> m[ptr + 1], x2 |-> m[ptr]]

\* push_context that returns the stack top, not where it wrote
push_context_top(self, cx, r) ==
    LET cx_ptr == KernelStack_get_sp(self) - TrapContextSize
    IN  /\ kstack' = write_context(kstack, cx_ptr, cx)
        /\ r = KernelStack_get_sp(self)

\* KernelStack::push_context; r is the address it returns
push_context(self, cx, r) ==
    LET cx_ptr == KernelStack_get_sp(self) - TrapContextSize
    IN  /\ kstack' = write_context(kstack, cx_ptr, cx)
        /\ r = cx_ptr

\* init_app_cx; r is the address it returns
init_app_cx(app_id, r) ==
    push_context(KERNEL_STACK(app_id),
                 app_init_context(get_base_i(app_id),
                                  UserStack_get_sp(USER_STACK(app_id))),
                 r)

\* load_app without its "clear region" step
clear_region_skipped(m, base_i) ==
    m

\* (base_i..base_i + APP_SIZE_LIMIT).for_each(|addr| write_volatile(0))
clear_region(m, base_i) ==
    [a \in AppMem |-> IF base_i <= a /\ a < base_i + APP_SIZE_LIMIT THEN 0 ELSE m[a]]

\* a copy that runs one byte past the image
copy_from_slice_extra(m, base_i, src, len) ==
    [a \in AppMem |-> IF base_i <= a /\ a < base_i + len + 1
                      THEN image(src + (a - base_i))
                      ELSE m[a]]

\* dst.copy_from_slice(src): len bytes from src to base_i
copy_from_slice(m, base_i, src, len) ==
    [a \in AppMem |-> IF base_i <= a /\ a < base_i + len
                      THEN image(src + (a - base_i))
                      ELSE m[a]]

\* The addresses one turn of the load loop writes: the cells that differ
\* after the turn's two writes on a memory no cell of which holds a byte.
loop_writes(base_i, src, len) ==
    LET blank == [a \in AppMem |-> 0 - 1]
        after == copy_from_slice(clear_region(blank, base_i), base_i, src, len)
    IN  {a \in AppMem : after[a] # blank[a]}

\* load_app up to its loop: num_app is read, then fence.i
load_app_enter ==
    /\ ~panicked
    /\ load_pc = "boot"
    /\ unflushed' = FALSE
    /\ load_i' = 0
    /\ load_pc' = IF num_app = 0 THEN "done" ELSE "loop"
    /\ UNCHANGED <<num_app, app_start, mem, kstack, current_app, cx_call, restored,
                   manager_ready, cx_hist, touched>>
    /\ UNCHANGED <<taskVars, frameVars, guardVars>>

\* one turn of `for i in 0..num_app`: clear the slot, copy the image
load_app_loop ==
    /\ ~panicked
    /\ load_pc = "loop"
    /\ LET i == load_i
           base_i == get_base_i(i)
           len == app_start[i + 1] - app_start[i]
       IN  /\ mem' = copy_from_slice(clear_region(mem, base_i), base_i, app_start[i], len)
           /\ touched' = {[i |-> i, addrs |-> loop_writes(base_i, app_start[i], len)]}
    /\ unflushed' = TRUE
    /\ load_i' = load_i + 1
    /\ load_pc' = IF load_i + 1 = num_app THEN "done" ELSE "loop"
    /\ UNCHANGED <<num_app, app_start, kstack, current_app, cx_call, restored,
                   manager_ready, cx_hist>>
    /\ UNCHANGED <<taskVars, frameVars, guardVars>>

\* what init_app_cx(app_id) returning r adds to the history
cx_record(app_id, r) ==
    [app_id |-> app_id, addr |-> r, sp |-> read_context(kstack', r).x2]

\* init_app_cx called for some application id, once the images are loaded
init_app_cx_call ==
    /\ ~panicked
    /\ load_pc = "done"
    /\ \E app_id \in 0..MaxNumApp : \E r \in KMem :
          /\ init_app_cx(app_id, r)
          /\ cx_call' = {[app_id |-> app_id, addr |-> r]}
          /\ cx_hist' = cx_hist \cup {cx_record(app_id, r)}
    /\ UNCHANGED <<num_app, app_start, mem, load_pc, load_i, unflushed,
                   current_app, restored, manager_ready, touched>>
    /\ UNCHANGED <<taskVars, frameVars, guardVars>>

\* The initializer of the lazy_static APP_MANAGER, run by the first access:
\* app_start[..=num_app] of an array of MAX_APP_NUM + 1 words panics (slice
\* index out of range) when num_app > MAX_APP_NUM.
app_manager_init_panics ==
    ~manager_ready /\ num_app > MAX_APP_NUM

\* the panic of the APP_MANAGER initializer
InitPanic ==
    /\ panicked' = TRUE
    /\ UNCHANGED <<allocVars, booted, trackers, frames, ret, last, histVars>>
    /\ UNCHANGED <<taskVars, loaderVars, guardVars>>

\* print_app_info: APP_MANAGER.exclusive_access().print_app_info()
print_app_info ==
    /\ ~panicked
    /\ IF app_manager_init_panics THEN InitPanic
       ELSE IF already_borrowed(app_guard) THEN BorrowPanic
       ELSE /\ manager_ready' = TRUE
            /\ app_guard' = drop_guard(exclusive_access(app_guard))
            /\ UNCHANGED <<num_app, app_start, mem, kstack, load_pc, load_i, unflushed,
                           current_app, cx_call, restored, cx_hist, touched>>
            /\ UNCHANGED <<taskVars, frameVars, frame_guard, reentered>>

\* run_next_app that keeps its guard across the mode switch
run_next_app_guard_kept(g) ==
    exclusive_access(g)

\* The guards alive on APP_MANAGER when run_next_app calls __restore:
\* exclusive_access() at its top, drop(app_manager) before the mode switch.
run_next_app_guard(g) ==
    drop_guard(exclusive_access(g))

\* run_next_app: move_to_next_app, then __restore(init_app_cx(current_app + 1)).
\* Control comes back to the kernel with the next trap.
run_next_app ==
    /\ ~panicked
    /\ load_pc = "done"
    /\ current_app < MaxRuns
    /\ IF app_manager_init_panics THEN InitPanic
       ELSE IF already_borrowed(app_guard) THEN BorrowPanic
       ELSE /\ manager_ready' = TRUE
            /\ current_app' = current_app + 1
            /\ app_guard' = run_next_app_guard(app_guard)
            /\ \E r \in KMem :
                  /\ init_app_cx(current_app + 1, r)
                  /\ cx_call' = {[app_id |-> current_app + 1, addr |-> r]}
                  /\ cx_hist' = cx_hist \cup {cx_record(current_app + 1, r)}
                  /\ restored' = Append(restored, read_context(kstack', r))
            /\ UNCHANGED <<num_app, app_start, mem, load_pc, load_i, unflushed, touched>>
            /\ UNCHANGED <<taskVars, frameVars, frame_guard, reentered>>

\* ------------------------------------------------------ Task Control Block
\* enum TaskStatus
TaskStatus == {"UnInit", "Ready", "Running", "Exited"}
SyscallIds == 0..(MAX_SYSCALL_NUM - 1)

\* A freshly constructed TaskControlBlock.
tcb_new ==
    /\ task_status = "UnInit"
    /\ first_start_time = {}
    /\ syscall_accounting = [n \in SyscallIds |-> 0]

\* entering Running with first_start_time written on every entry
enter_running_overwrite ==
    /\ task_status' = "Running"
    /\ first_start_time' = {now}

\* UnInit/Ready -> Running; first_start_time is set if it is unset
enter_running ==
    /\ task_status' = "Running"
    /\ first_start_time' = IF first_start_time = {} THEN {now} ELSE first_start_time

\* the loader makes the task Ready
task_load ==
    /\ task_status = "UnInit"
    /\ task_status' = "Ready"
    /\ UNCHANGED <<first_start_time, syscall_accounting, now, run_times>>
    /\ UNCHANGED <<frameVars, loaderVars, guardVars>>

\* the scheduler runs the task
task_run ==
    /\ task_status \in {"UnInit", "Ready"}
    /\ Len(run_times) < MaxEntries
    /\ enter_running
    /\ run_times' = Append(run_times, now)
    /\ UNCHANGED <<syscall_accounting, now>>
    /\ UNCHANGED <<frameVars, loaderVars, guardVars>>

\* the running task yields or is preempted
task_suspend ==
    /\ task_status = "Running"
    /\ task_status' = "Ready"
    /\ UNCHANGED <<first_start_time, syscall_accounting, now, run_times>>
    /\ UNCHANGED <<frameVars, loaderVars, guardVars>>

\* the running task exits; nothing leaves Exited
task_exit ==
    /\ task_status = "Running"
    /\ task_status' = "Exited"
    /\ UNCHANGED <<first_start_time, syscall_accounting, now, run_times>>
    /\ UNCHANGED <<frameVars, loaderVars, guardVars>>

\* the running task makes syscall n
task_syscall ==
    /\ task_status = "Running"
    /\ \E n \in SyscallIds :
          /\ syscall_accounting[n] < MaxSyscalls
          /\ syscall_accounting' = [syscall_accounting EXCEPT ![n] = @ + 1]
    /\ UNCHANGED <<task_status, first_start_time, now, run_times>>
    /\ UNCHANGED <<frameVars, loaderVars, guardVars>>

\* time passes
tick ==
    /\ now < MaxTime
    /\ now' = now + 1
    /\ UNCHANGED <<task_status, first_start_time, syscall_accounting, run_times>>
    /\ UNCHANGED <<frameVars, loaderVars, guardVars>>

\* ---------------------------------------------------------- specifications
\* After FRAME_ALLOCATOR is constructed.  Memory was never cleaned: every frame
\* holds the same arbitrary bytes.
InitFrames(Garbage) ==
    /\ new
    /\ booted = FALSE
    /\ trackers = [p \in PPNs |-> 0]
    /\ \E garbage \in Garbage : frames = [p \in PPNs |-> garbage]
    /\ panicked = FALSE
    /\ ret = {}
    /\ last = Op("new", {})
    /\ low = 0
    /\ released = <<>>
    /\ reused = <<>>
    /\ cur0 = 0

\* The embedded image table and the memory before load_app: Counts are the
\* values _num_app may hold, Lens the lengths an image may have, Stale the
\* bytes application memory may be filled with.
InitLoader(Counts, Lens, Stale) ==
    /\ num_app \in Counts
    /\ \E lens \in [0..(num_app - 1) -> Lens] :
          app_start = [i \in 0..num_app |->
                          DataStart + Sum(lens, i)]
    /\ \E b \in Stale : mem = [a \in AppMem |-> b]
    /\ kstack = [a \in KMem |-> 0]
    /\ load_pc = "boot"
    /\ load_i = 0
    /\ unflushed = FALSE
    /\ current_app = 0
    /\ cx_call = {}
    /\ restored = <<>>
    /\ manager_ready = FALSE
    /\ cx_hist = {}
    /\ touched = {}

\* One task control block, just constructed; the timer has some value.
InitTask(Times) ==
    /\ tcb_new
    /\ now \in Times
    /\ run_times = <<>>

\* No exclusive-access guard is alive.
InitGuards ==
    /\ frame_guard = 0
    /\ app_guard = 0
    /\ reentered = FALSE

\* The frame allocator alone, no application embedded.
Init ==
    /\ InitFrames([PageIdx -> Byte])
    /\ InitLoader({0}, {0}, {0})
    /\ InitGuards
    /\ InitTask({0})

\* The loader alone, the frame allocator untouched.
InitApps ==
    /\ InitFrames({ZeroPage})
    /\ InitLoader(0..MaxNumApp, 0..MaxImageLen, {0, 255})
    /\ InitGuards
    /\ InitTask({0})

\* Frames are taken with frame_alloc and given back by dropping their trackers.
Next ==
    \/ init_frame_allocator
    \/ frame_alloc
    \/ drop_tracker
    \/ write_frame

Spec == Init /\ [][Next]_vars

\* The allocator's own alloc and dealloc, called with any argument.
NextAllocator ==
    \/ init_frame_allocator
    \/ alloc_call
    \/ dealloc_call

SpecAllocator == Init /\ [][NextAllocator]_vars

\* Boot: load_app, then applications are started one after the other.
NextLoader ==
    \/ load_app_enter
    \/ load_app_loop
    \/ init_app_cx_call
    \/ print_app_info
    \/ run_next_app

SpecLoader == InitApps /\ [][NextLoader]_vars

\* The kernel as a whole: frames are allocated and released while the
\* applications are loaded and started; every image is one byte long.
InitKernel ==
    /\ InitFrames({ZeroPage})
    /\ InitLoader(1..MaxNumApp, {1}, {0})
    /\ InitGuards
    /\ InitTask({0})

NextKernel ==
    \/ init_frame_allocator
    \/ frame_alloc
    \/ drop_tracker
    \/ load_app_enter
    \/ load_app_loop
    \/ print_app_info
    \/ run_next_app

SpecKernel == InitKernel /\ [][NextKernel]_vars

\* One task from its construction on, the rest of the kernel left out.
InitTasks ==
    /\ InitFrames({ZeroPage})
    /\ InitLoader({0}, {0}, {0})
    /\ InitGuards
    /\ InitTask(0..MaxTime)

NextTask ==
    \/ task_load
    \/ task_run
    \/ task_suspend
    \/ task_exit
    \/ task_syscall
    \/ tick

SpecTask == InitTasks /\ [][NextTask]_vars

\* ------------------------------------------------------------------ claims
\* C1: no frame is ever held by two live trackers; an alloc that returned a
\* frame some tracker already holds would make that frame's count 2.
NoDoubleAllocation ==
    \A p \in PPNs : trackers[p] <= 1

\* alloc has just reused a released frame while another tracker is live
NoDoubleAllocation_Witness ==
    /\ last.op = "alloc"
    /\ \E p \in ret : /\ p + 1 < current
                      /\ trackers[p] = 1
                      /\ \E q \in PPNs : q # p /\ trackers[q] = 1

\* C2: every frame number in [low, current) is held by exactly one live
\* tracker or is in `recycled` exactly once, never both and never neither.
NoLeak ==
    \A p \in PPNs :
        (low <= p /\ p < current) =>
            \/ trackers[p] = 1 /\ Count(recycled, p) = 0
            \/ trackers[p] = 0 /\ Count(recycled, p) = 1

\* some frame is live, another is recycled, after a reuse
NoLeak_Witness ==
    /\ booted
    /\ low > 0
    /\ \E p, q \in low..(current - 1) : trackers[p] = 1 /\ Count(recycled, q) = 1
    /\ last.op = "alloc"
    /\ ret # {}

\* C3: right after frame_alloc returns a tracker its frame is all zero, fresh
\* or reused, whatever the frame held before.
AllocZeroed ==
    last.op = "alloc" => \A p \in ret : frames[p] = ZeroPage

\* a reused frame that held non-zero bytes in every position was handed out
AllocZeroed_Witness ==
    /\ last.op = "alloc"
    /\ \E p \in ret : p + 1 < current
    /\ \E old \in last.arg : \A i \in PageIdx : old[i] # 0

\* C4: dealloc(ppn) panics exactly when ppn >= current or ppn is in
\* `recycled`; then `recycled` and `current` are unchanged; otherwise ppn is
\* pushed onto `recycled`.
DeallocContract ==
    [][last'.op = "dealloc" =>
         \A p \in last'.arg :
             IF p >= current \/ p \in Range(recycled)
             THEN panicked' /\ recycled' = recycled /\ current' = current
             ELSE ~panicked' /\ recycled' = Append(recycled, p) /\ current' = current
      ]_vars

\* a double free took the fatal path
DeallocContract_Witness ==
    /\ panicked
    /\ last.op = "dealloc"
    /\ \E p \in last.arg : p < current /\ p \in Range(recycled)

\* C5: alloc returns None exactly when `recycled` is empty and current = end;
\* it then panics not and leaves current, end and recycled as they were; the
\* alloc that follows a release succeeds.
ExhaustionIsNone ==
    [][/\ last'.op = "alloc" =>
            /\ (ret' = {}) <=> (recycled = <<>> /\ current = end)
            /\ ret' = {} => (/\ ~panicked'
                             /\ current' = current
                             /\ end' = end
                             /\ recycled' = recycled)
       /\ (last.op = "drop" /\ last'.op = "alloc") => ret' # {}
      ]_vars

\* the pool is exhausted with frames out, and alloc returned None
ExhaustionIsNone_Witness ==
    /\ last.op = "alloc"
    /\ ret = {}
    /\ low < end
    /\ \E p \in PPNs : trackers[p] = 1
    /\ ~panicked

\* C6: the frames alloc returns after a release are the released frames, last
\* released first, and `current` stays put while released frames remain.
LIFOReuse ==
    /\ \A k \in DOMAIN reused :
          k <= Len(released) => reused[k] = released[Len(released) - k + 1]
    /\ Len(reused) <= Len(released) => current = cur0

\* every frame was released (at least two) and then all were allocated again
LIFOReuse_Witness ==
    /\ Len(released) >= 2
    /\ Len(reused) = Len(released)
    /\ Range(released) = low..(current - 1)

\* C7: dropping a tracker never panics, and after the drop its frame is in
\* `recycled` once and no tracker holds it.
DropReleasesOnce ==
    /\ ~panicked
    /\ last.op = "drop" =>
          \A p \in last.arg : Count(recycled, p) = 1 /\ trackers[p] = 0

\* the last of several trackers was dropped
DropReleasesOnce_Witness ==
    /\ last.op = "drop"
    /\ Len(recycled) >= 2
    /\ current = end
    /\ \A p \in PPNs : trackers[p] = 0

\* C8: current <= end, every entry of `recycled` is < current, and no frame
\* number is in `recycled` twice.
AllocatorInvariant ==
    /\ current <= end
    /\ \A i \in DOMAIN recycled : recycled[i] < current
    /\ \A i, j \in DOMAIN recycled : i # j => recycled[i] # recycled[j]

\* all frames of a range of two or more were allocated and some given back
AllocatorInvariant_Witness ==
    /\ booted
    /\ current = end
    /\ Len(recycled) >= 2

\* C9: after load_app, every application i whose image fits its slot has its
\* image at base(i) = APP_BASE_ADDRESS + i * APP_SIZE_LIMIT and zero in the rest
\* of the slot, for all such i at once.
LoadedImages ==
    load_pc = "done" =>
        \A i \in 0..(num_app - 1) :
            LET len == app_start[i + 1] - app_start[i]
                base == APP_BASE_ADDRESS + i * APP_SIZE_LIMIT
            IN  len <= APP_SIZE_LIMIT =>
                    \A k \in 0..(APP_SIZE_LIMIT - 1) :
                        mem[base + k] = IF k < len THEN image(app_start[i] + k) ELSE 0

\* memory was stale, image 0 is longer than its slot, image 1 is shorter
LoadedImages_Witness ==
    /\ load_pc = "done"
    /\ num_app >= 2
    /\ app_start[1] - app_start[0] > APP_SIZE_LIMIT
    /\ app_start[2] - app_start[1] > 0
    /\ app_start[2] - app_start[1] < APP_SIZE_LIMIT
    /\ \E a \in AppMem : mem[a] = 255

\* C10: init_app_cx(app_id) returns the address TrapContextSize below the top
\* of app_id's kernel stack, and the trap context at that address has
\* sepc = base(app_id) and sp = the top of app_id's user stack.
InitAppCxContext ==
    \A c \in cx_call :
        /\ c.addr = KERNEL_STACK(c.app_id) + KERNEL_STACK_SIZE - TrapContextSize
        /\ read_context(kstack, c.addr).sepc = APP_BASE_ADDRESS + c.app_id * APP_SIZE_LIMIT
        /\ read_context(kstack, c.addr).x2 = USER_STACK(c.app_id) + USER_STACK_SIZE

\* init_app_cx has run for application 1, after it ran for another one
InitAppCxContext_Witness ==
    /\ \E c \in cx_call : c.app_id = 1
    /\ num_app >= 2
    /\ current_app = 1

\* C11: current_app never exceeds num_app.  (It does start at 0 and every
\* run_next_app adds exactly 1; the bound is what fails.)
CursorBounded ==
    current_app <= num_app

\* C12: run_next_app never switches to an application that does not exist:
\* every context given to __restore enters an application below num_app.
NoSwitchPastLastApp ==
    \A k \in DOMAIN restored :
        restored[k].sepc < APP_BASE_ADDRESS + num_app * APP_SIZE_LIMIT

\* C13: once run_next_app has been called num_app times or more, every
\* application 0..num_app-1 has been entered by a mode switch.
AllAppsStarted ==
    current_app >= num_app =>
        \A i \in 0..(num_app - 1) :
            \E k \in DOMAIN restored :
                restored[k].sepc = APP_BASE_ADDRESS + i * APP_SIZE_LIMIT

\* C14: when load_app has copied image bytes and returned, a fence.i has
\* been executed after the last of them was written.
FenceAfterCopy ==
    (load_pc = "done" /\ app_start[num_app] > app_start[0]) => ~unflushed

\* C15: with num_app > MAX_APP_NUM load_app does not run to its end and does
\* not load a slot beyond MAX_APP_NUM.
LoadAbortsBeyondMax ==
    num_app > MAX_APP_NUM => (load_pc # "done" /\ load_i <= MAX_APP_NUM)

\* C16: init_app_cx calls for different applications return different
\* addresses and use different user stack tops, and the context written for
\* an application stays as it was written.
StacksPerApp ==
    \A c, d \in cx_hist :
        /\ c.app_id # d.app_id => (c.addr # d.addr /\ c.sp # d.sp)
        /\ read_context(kstack, c.addr).sepc = APP_BASE_ADDRESS + c.app_id * APP_SIZE_LIMIT

\* C20 as stated: every turn of the load loop writes only inside the slot of
\* the application it loads, whatever the image table.
WritesStayInSlot ==
    \A t \in touched :
        t.addrs \subseteq
            (APP_BASE_ADDRESS + t.i * APP_SIZE_LIMIT) ..
            (APP_BASE_ADDRESS + (t.i + 1) * APP_SIZE_LIMIT - 1)

\* C20, amended: a turn of the load loop whose image is at most APP_SIZE_LIMIT
\* bytes long writes only inside the slot of the application it loads.
FittingImageStaysInSlot ==
    \A t \in touched :
        app_start[t.i + 1] - app_start[t.i] <= APP_SIZE_LIMIT =>
            t.addrs \subseteq
                (APP_BASE_ADDRESS + t.i * APP_SIZE_LIMIT) ..
                (APP_BASE_ADDRESS + (t.i + 1) * APP_SIZE_LIMIT - 1)

\* application 1 was loaded from an image exactly as long as its slot
FittingImageStaysInSlot_Witness ==
    \E t \in touched :
        /\ t.i = 1
        /\ app_start[2] - app_start[1] = APP_SIZE_LIMIT
        /\ Cardinality(t.addrs) = APP_SIZE_LIMIT

\* C17: exclusive_access is never called on a cell whose guard is alive, and
\* no guard on APP_MANAGER is alive when run_next_app has switched mode.
NoReentry ==
    /\ ~reentered
    /\ restored # <<>> => app_guard = 0
    /\ frame_guard = 0

\* run_next_app ran twice and print_app_info after it, with frames allocated
\* and released in between
NoReentry_Witness ==
    /\ current_app >= 2
    /\ manager_ready
    /\ recycled # <<>>
    /\ \E p \in PPNs : trackers[p] = 1
    /\ ~panicked

\* C18: a task that is still UnInit has every syscall counter 0 and
\* first_start_time unset; first_start_time is unset until the task first
\* enters Running and from then on is the time of that first entry, whatever
\* Running -> Ready -> Running cycles follow.
FirstStartTimeSetOnce ==
    /\ task_status = "UnInit" =>
          /\ first_start_time = {}
          /\ \A n \in SyscallIds : syscall_accounting[n] = 0
    /\ first_start_time = IF run_times = <<>> THEN {} ELSE {run_times[1]}

\* the task is Running for the second time, later than the first, and has
\* made a syscall
FirstStartTimeSetOnce_Witness ==
    /\ task_status = "Running"
    /\ Len(run_times) >= 2
    /\ run_times[2] > run_times[1]
    /\ \E n \in SyscallIds : syscall_accounting[n] > 0

\* C19: every frame number alloc returns lies in the managed range
\* [low, end), whatever alloc and dealloc calls came before.
AllocInRange ==
    last.op = "alloc" => \A p \in ret : low <= p /\ p < end

====
